---- MODULE Spec2Model ----
(***************************************************************************)
(* Model of paddle/fluid/operators/maxout_op.cc (shape inference of the    *)
(* maxout operator and of its gradient, and the documented forward         *)
(* formula) and of paddle/fluid/operators/fused/CMakeLists.txt (build      *)
(* gating of the fused operators).                                         *)
(*                                                                         *)
(* Three specifications share the variables:                               *)
(*   Spec       shape inference of maxout / maxout_grad                    *)
(*   SpecKernel forward value computation by the documented formula        *)
(*   SpecBuild  one configure run of fused/CMakeLists.txt                  *)
(***************************************************************************)
EXTENDS Integers, Sequences, FiniteSets, TLC

\* ---------------------------------------------------------------- bounds
MaxDim == 4
MaxGroups == 3
MaxSize == 4

\* ------------------------------------------------------- program constants
\* the operator takes a 4-D tensor; output_shape is built from 4 entries
Rank == 4
\* default of Attr(axis)
DefaultAxis == 1
\* cuDNN version gate of conv_fusion_op and fusion_conv_inception_op
CudnnGate == 7100

\* ------------------------------------------------------------ input sets
\* a dimension is a positive extent, or -1 (extent unknown when the graph
\* is built)
DimValues == {-1} \cup (1..MaxDim)
Shapes == [1..Rank -> DimValues]
GroupValues == (-1)..MaxGroups
\* int attribute; -1 and 3 are the documented channel-last values
AxisValues == {-1, 0, DefaultAxis, 2, 3}
Unset == << >>

VARIABLES
  \* InferShapeContext of the operator
  hasX, hasOut, hasXGrad, xDims, groups, axis,
  outDims, xGradDims,
  \* outcome of the last MaxOutOp::InferShape / MaxOutOpGrad::InferShape
  fwdStatus, gradStatus,
  \* indices outside the 4 entries touched by the last forward InferShape
  oob,
  \* forward kernel
  kpc, x, y, ki, kj, wcount, rcount, kbad,
  \* CMake run
  WITH_GPU, CUDNN_VERSION, cpc, built, pybind

shapeVars == <<hasX, hasOut, hasXGrad, xDims, groups, axis, outDims,
               xGradDims, fwdStatus, gradStatus, oob>>
kernelVars == <<kpc, x, y, ki, kj, wcount, rcount, kbad>>
buildVars == <<WITH_GPU, CUDNN_VERSION, cpc, built, pybind>>
vars == <<shapeVars, kernelVars, buildVars>>

\* ------------------------------------------------------ integer division
\* C++ integer division truncates toward zero (divisor > 0 here)
CDiv(a, b) == IF a >= 0 THEN a \div b ELSE -((-a) \div b)
CMod(a, b) == a - b * CDiv(a, b)

\* -------------------------------------------------- MaxOutOp::InferShape
\* (variant: the Input(X) check dropped)
EnforceX_Skipped == TRUE
EnforceX == hasX
\* (variant: the Output(Out) check dropped)
EnforceOut_Skipped == TRUE
EnforceOut == hasOut
\* (variant: PADDLE_ENFORCE_GE in place of PADDLE_ENFORCE_GT)
EnforceGroups_GE(g) == g >= 1
EnforceGroups(g) == g > 1
\* std::vector<int64_t> output_shape of 4 entries, indexed by axis
InBounds(a) == a \in 0..(Rank - 1)
\* (variant: the channel dimension taken to be 1 whatever the axis)
OutputShape_Chan1(dims, g, a) ==
  [d \in 1..Rank |-> IF d = 2 THEN CDiv(dims[2], g) ELSE dims[d]]
OutputShape(dims, g, a) ==
  [d \in 1..Rank |-> IF d = a + 1 THEN CDiv(dims[a + 1], g) ELSE dims[d]]

KernelIdle ==
  /\ kpc = "idle" /\ x = << >> /\ y = << >> /\ ki = 0 /\ kj = 0
  /\ wcount = << >> /\ rcount = << >> /\ kbad = FALSE
BuildIdle ==
  /\ WITH_GPU = FALSE /\ CUDNN_VERSION = 0 /\ cpc = "idle"
  /\ built = << >> /\ pybind = << >>

Init ==
  /\ hasX \in BOOLEAN /\ hasOut \in BOOLEAN /\ hasXGrad \in BOOLEAN
  /\ xDims \in Shapes
  /\ groups \in GroupValues
  /\ axis \in AxisValues
  /\ outDims = Unset /\ xGradDims = Unset
  /\ fwdStatus = "idle" /\ gradStatus = "idle"
  /\ oob = {}
  /\ KernelIdle /\ BuildIdle

Alive == fwdStatus # "crash"

MaxOutInferShape ==
  /\ Alive
  /\ \/ /\ ~EnforceX
        /\ fwdStatus' = "X_null"
        /\ UNCHANGED <<outDims, oob>>
     \/ /\ EnforceX /\ ~EnforceOut
        /\ fwdStatus' = "Out_null"
        /\ UNCHANGED <<outDims, oob>>
     \/ /\ EnforceX /\ EnforceOut /\ ~EnforceGroups(groups)
        /\ fwdStatus' = "groups"
        /\ UNCHANGED <<outDims, oob>>
     \/ /\ EnforceX /\ EnforceOut /\ EnforceGroups(groups) /\ InBounds(axis)
        /\ outDims' = OutputShape(xDims, groups, axis)
        /\ fwdStatus' = "ok"
        /\ oob' = {}
     \* axis outside the 4 entries: in_x_dims[axis] and output_shape[axis]
     \* are out-of-range accesses.  The store misses the 4 entries, which
     \* keep the input's extents, or the process dies.
     \/ /\ EnforceX /\ EnforceOut /\ EnforceGroups(groups) /\ ~InBounds(axis)
        /\ outDims' = xDims
        /\ fwdStatus' = "ok"
        /\ oob' = {axis}
     \/ /\ EnforceX /\ EnforceOut /\ EnforceGroups(groups) /\ ~InBounds(axis)
        /\ fwdStatus' = "crash"
        /\ oob' = {axis}
        /\ UNCHANGED outDims
  /\ UNCHANGED <<hasX, hasOut, hasXGrad, xDims, groups, axis, xGradDims,
                 gradStatus>>
  /\ UNCHANGED <<kernelVars, buildVars>>

\* ---------------------------------------------- MaxOutOpGrad::InferShape
EnforceGradX == hasX
EnforceGradOut == hasXGrad
\* (variant: the gradient takes the shape of Out)
GradXDim_Out == outDims
GradXDim == xDims

MaxOutGradInferShape ==
  /\ Alive
  /\ \/ /\ ~EnforceGradX
        /\ gradStatus' = "X_null"
        /\ UNCHANGED xGradDims
     \/ /\ EnforceGradX /\ ~EnforceGradOut
        /\ gradStatus' = "XGrad_null"
        /\ UNCHANGED xGradDims
     \/ /\ EnforceGradX /\ EnforceGradOut
        /\ xGradDims' = GradXDim
        /\ gradStatus' = "ok"
  /\ UNCHANGED <<hasX, hasOut, hasXGrad, xDims, groups, axis, outDims,
                 fwdStatus, oob>>
  /\ UNCHANGED <<kernelVars, buildVars>>

Next == MaxOutInferShape \/ MaxOutGradInferShape

Spec == Init /\ [][Next]_vars

\* ============================================== forward kernel (maxout)
\* element values in units of 0.5: 1 = 0.5, 2 = 1.0, 4 = 2.0, 6 = 3.0
Values == {1, 2, 4, 6}
\* a tensor handed to the kernel has known, positive extents
RECURSIVE Product(_, _)
Product(dims, n) == IF n = 0 THEN 1 ELSE dims[n] * Product(dims, n - 1)
Numel(dims) == Product(dims, Len(dims))
KernelShapes ==
  {S \in [1..Rank -> 1..MaxSize] : Numel(S) <= MaxSize}

\* g = groups, s = input.size / num_channels
Stride == Numel(xDims) \div xDims[axis + 1]
\* 0 <= i < num_channels / groups
NumOut == xDims[axis + 1] \div groups

\* y_{si+j} = max_k x_{gsi + sk + j}   (0-based flat indices)
\* (variant: the factor g dropped from the channel offset)
InputIndex_NoGroups(g, s, i, k, j) == s * i + s * k + j
\* (variant: i and k exchanged)
InputIndex_Swapped(g, s, i, k, j) == g * s * k + s * i + j
InputIndex(g, s, i, k, j) == g * s * i + s * k + j
OutputIndex(s, i, j) == s * i + j

\* max over k of the `groups` candidates, accumulated left to right
RECURSIVE AccMax(_, _, _, _)
AccMax(ele, k, i, j) ==
  IF k = groups THEN ele
  ELSE LET v == x[InputIndex(groups, Stride, i, k, j) + 1]
       IN AccMax(IF ele > v THEN ele ELSE v, k + 1, i, j)

InitKernel ==
  /\ hasX = TRUE /\ hasOut = TRUE /\ hasXGrad = TRUE
  /\ xDims \in KernelShapes
  /\ groups \in 2..MaxGroups
  /\ axis \in {DefaultAxis, 3}
  \* shape inference has run
  /\ outDims = OutputShape(xDims, groups, axis)
  /\ fwdStatus = "ok" /\ oob = {}
  /\ xGradDims = Unset /\ gradStatus = "idle"
  /\ KernelIdle /\ BuildIdle

\* the engine hands the input tensor and the allocated output to the kernel
KernelBegin ==
  /\ kpc = "idle"
  /\ x' \in [1..Numel(xDims) -> Values]
  /\ y' = [o \in 1..Numel(outDims) |-> 0]
  /\ wcount' = [o \in 1..Numel(outDims) |-> 0]
  /\ rcount' = [n \in 1..Numel(xDims) |-> 0]
  /\ ki' = 0 /\ kj' = 0 /\ kbad' = FALSE
  /\ kpc' = "run"
  /\ UNCHANGED <<shapeVars, buildVars>>

\* one output element: index s*i + j
KernelElement ==
  /\ kpc = "run" /\ ki < NumOut
  /\ LET ins == {InputIndex(groups, Stride, ki, k, kj) : k \in 0..(groups - 1)}
         o == OutputIndex(Stride, ki, kj)
         inRange == /\ \A n \in ins : n \in 0..(Numel(xDims) - 1)
                    /\ o \in 0..(Numel(outDims) - 1)
     IN IF inRange
        THEN /\ y' = [y EXCEPT ![o + 1] =
                        AccMax(x[InputIndex(groups, Stride, ki, 0, kj) + 1],
                               1, ki, kj)]
             /\ wcount' = [wcount EXCEPT ![o + 1] = @ + 1]
             /\ rcount' = [n \in DOMAIN rcount |->
                             IF (n - 1) \in ins THEN rcount[n] + 1
                                                ELSE rcount[n]]
             /\ UNCHANGED kbad
        ELSE /\ kbad' = TRUE
             /\ UNCHANGED <<y, wcount, rcount>>
  /\ IF kj + 1 < Stride
     THEN /\ kj' = kj + 1 /\ ki' = ki
     ELSE /\ kj' = 0 /\ ki' = ki + 1
  /\ UNCHANGED <<kpc, x>>
  /\ UNCHANGED <<shapeVars, buildVars>>

KernelEnd ==
  /\ kpc = "run" /\ ki >= NumOut
  /\ kpc' = "done"
  /\ UNCHANGED <<x, y, ki, kj, wcount, rcount, kbad>>
  /\ UNCHANGED <<shapeVars, buildVars>>

NextKernel == KernelBegin \/ KernelElement \/ KernelEnd

SpecKernel == InitKernel /\ [][NextKernel]_vars

\* ========================================= fused/CMakeLists.txt
\* register_operators(EXCLUDES ...)
EXCLUDES ==
  {"conv_fusion_op", "fusion_transpose_flatten_concat_op",
   "fusion_conv_inception_op", "fused_fc_elementwise_layernorm_op",
   "multihead_matmul_op"}
\* other operator sources of the directory, picked up by the sweep
SweptOps == {"fusion_gru_op", "fusion_lstm_op"}
DirOps == EXCLUDES \cup SweptOps
CudnnVersions == {0, 6000, 7000, 7099, CudnnGate, 7101, 7605}
PriorPybind == {<< >>, <<"USE_OP(fusion_gru);\n">>}

\* <a> VERSION_LESS <b> on single-component versions
VersionLess(a, b) == a < b
\* NOT ${CUDNN_VERSION} VERSION_LESS 7100
\* (variant: the gate read as cuDNN 7.0.0)
CudnnOk_7000 == ~VersionLess(CUDNN_VERSION, 7000)
CudnnOk == ~VersionLess(CUDNN_VERSION, CudnnGate)

InitBuild ==
  /\ WITH_GPU \in BOOLEAN
  /\ CUDNN_VERSION \in CudnnVersions
  /\ cpc = "L2"
  /\ built = [op \in DirOps |-> 0]
  /\ pybind \in PriorPybind
  /\ hasX = FALSE /\ hasOut = FALSE /\ hasXGrad = FALSE
  /\ xDims = Unset /\ groups = 0 /\ axis = DefaultAxis
  /\ outDims = Unset /\ xGradDims = Unset
  /\ fwdStatus = "idle" /\ gradStatus = "idle" /\ oob = {}
  /\ KernelIdle

\* the sweep builds every operator of the directory not listed in EXCLUDES
RegisterOperators ==
  /\ cpc = "L2"
  /\ built' = [op \in DirOps |->
                 IF op \in EXCLUDES THEN built[op] ELSE built[op] + 1]
  /\ cpc' = "L9"
  /\ UNCHANGED <<WITH_GPU, CUDNN_VERSION, pybind>>
  /\ UNCHANGED <<shapeVars, kernelVars>>

\* if (WITH_GPU) ... endif()
IfWithGpu ==
  /\ cpc = "L9"
  /\ cpc' = IF WITH_GPU THEN "L11" ELSE "done"
  /\ UNCHANGED <<WITH_GPU, CUDNN_VERSION, built, pybind>>
  /\ UNCHANGED <<shapeVars, kernelVars>>

\* if (NOT ${CUDNN_VERSION} VERSION_LESS 7100) ... endif()
IfCudnn(at, then, else) ==
  /\ cpc = at
  /\ cpc' = IF CudnnOk THEN then ELSE else
  /\ UNCHANGED <<WITH_GPU, CUDNN_VERSION, built, pybind>>
  /\ UNCHANGED <<shapeVars, kernelVars>>

\* op_library(<op>)
OpLibrary(at, op, next) ==
  /\ cpc = at
  /\ built' = [built EXCEPT ![op] = @ + 1]
  /\ cpc' = next
  /\ UNCHANGED <<WITH_GPU, CUDNN_VERSION, pybind>>
  /\ UNCHANGED <<shapeVars, kernelVars>>

\* file(APPEND ${pybind_file} <line>)
FileAppend(at, line, next) ==
  /\ cpc = at
  /\ pybind' = Append(pybind, line)
  /\ cpc' = next
  /\ UNCHANGED <<WITH_GPU, CUDNN_VERSION, built>>
  /\ UNCHANGED <<shapeVars, kernelVars>>

NextBuild ==
  \/ RegisterOperators
  \/ IfWithGpu
  \/ IfCudnn("L11", "L12", "L16")
  \/ OpLibrary("L12", "conv_fusion_op", "L13")
  \/ FileAppend("L13", "USE_CUDA_ONLY_OP(conv2d_fusion);\n", "L16")
  \/ OpLibrary("L16", "fusion_transpose_flatten_concat_op", "L17")
  \/ FileAppend("L17", "USE_CUDA_ONLY_OP(fusion_transpose_flatten_concat);\n",
                "L19")
  \/ IfCudnn("L19", "L20", "L24")
  \/ OpLibrary("L20", "fusion_conv_inception_op", "L21")
  \/ FileAppend("L21", "USE_CUDA_ONLY_OP(conv2d_inception_fusion);\n", "L24")
  \/ OpLibrary("L24", "fused_fc_elementwise_layernorm_op", "L25")
  \/ FileAppend("L25", "USE_CUDA_ONLY_OP(fused_fc_elementwise_layernorm);\n",
                "L27")
  \/ OpLibrary("L27", "multihead_matmul_op", "L28")
  \/ FileAppend("L28", "USE_CUDA_ONLY_OP(multihead_matmul);\n", "done")

SpecBuild == InitBuild /\ [][NextBuild]_vars

\* ====================================================== claims, Spec
FwdCalled == fwdStatus # "idle"
GradCalled == gradStatus # "idle"
FwdErrors == {"X_null", "Out_null", "groups"}
GradErrors == {"X_null", "XGrad_null"}

\* C1: when X and Out are present, groups > 1, axis is in 0..3 and
\* S[axis] is divisible by groups, forward shape inference succeeds and
\* the shape written to Out equals S in every dimension except axis, where
\* it is the exact quotient S[axis] / groups.
C1_OutputShape ==
  (/\ FwdCalled /\ hasX /\ hasOut /\ groups > 1 /\ axis \in 0..3
   /\ CMod(xDims[axis + 1], groups) = 0)
  => /\ fwdStatus = "ok"
     /\ DOMAIN outDims = 1..4
     /\ \A d \in 1..4 :
          IF d = axis + 1 THEN outDims[d] * groups = xDims[d]
                          ELSE outDims[d] = xDims[d]
C1_Witness ==
  /\ fwdStatus = "ok" /\ axis = 3 /\ groups = 2
  /\ xDims = <<2, 3, 1, 4>> /\ outDims = <<2, 3, 1, 2>>

\* C2: whenever S[axis] is not divisible by groups (groups > 1), forward
\* shape inference ends in an error and writes no output shape.
C2_IndivisibleFails ==
  (/\ FwdCalled /\ groups > 1 /\ axis \in 0..3
   /\ CMod(xDims[axis + 1], groups) # 0)
  => (fwdStatus \in FwdErrors /\ outDims = Unset)

\* C3: forward shape inference fails with an error for every groups <= 1
\* (the groups error when X and Out are present) and never reports the
\* groups error for groups >= 2.
C3_GroupsCheck ==
  FwdCalled =>
    /\ (groups <= 1 => (fwdStatus \in FwdErrors /\ outDims = Unset))
    /\ ((groups <= 1 /\ hasX /\ hasOut) => fwdStatus = "groups")
    /\ (groups >= 2 => fwdStatus # "groups")
C3_Witness ==
  /\ fwdStatus = "groups" /\ groups = 1 /\ hasX /\ hasOut
  /\ outDims = Unset

\* C4: MaxOutOp::InferShape fails when X or Out is absent and
\* MaxOutOpGrad::InferShape fails when X or the gradient-of-X slot is
\* absent; in these cases no output shape is written.
C4_MissingSlot ==
  /\ (FwdCalled /\ (~hasX \/ ~hasOut))
       => (fwdStatus \in {"X_null", "Out_null"} /\ outDims = Unset)
  /\ (GradCalled /\ (~hasX \/ ~hasXGrad))
       => (gradStatus \in GradErrors /\ xGradDims = Unset)
C4_Witness ==
  /\ hasX /\ ~hasOut /\ ~hasXGrad
  /\ fwdStatus = "Out_null" /\ gradStatus = "XGrad_null"
  /\ outDims = Unset /\ xGradDims = Unset

\* C5: when X and the gradient-of-X slot are present, gradient shape
\* inference succeeds and writes the shape of X, whatever groups, axis and
\* the shape of Out are.
C5_GradShape ==
  (GradCalled /\ hasX /\ hasXGrad)
  => (gradStatus = "ok" /\ xGradDims = xDims)
C5_Witness ==
  /\ gradStatus = "ok" /\ xGradDims = xDims
  /\ fwdStatus = "ok" /\ outDims # xDims /\ groups = 3 /\ axis = 0

\* C6: with axis = -1 and valid groups, forward shape inference writes the
\* same output shape as with axis = 3 and touches no dimension index
\* outside 0..3.
C6_AxisMinusOne ==
  (/\ FwdCalled /\ hasX /\ hasOut /\ groups > 1 /\ axis = -1
   /\ CMod(xDims[4], groups) = 0)
  => /\ fwdStatus = "ok"
     /\ outDims = [d \in 1..4 |->
                     IF d = 4 THEN xDims[4] \div groups ELSE xDims[d]]
     /\ oob = {}

\* C9: a forward shape inference call leaves the shape of X, the
\* attributes groups and axis, the slots and the gradient's shape
\* unchanged, and leaves the shape of Out unchanged when X is absent, Out
\* is absent or groups <= 1.
C9_Frame ==
  [][(fwdStatus' # fwdStatus) =>
       /\ xDims' = xDims /\ groups' = groups /\ axis' = axis
       /\ hasX' = hasX /\ hasOut' = hasOut /\ hasXGrad' = hasXGrad
       /\ xGradDims' = xGradDims /\ gradStatus' = gradStatus
       /\ ((~hasX \/ ~hasOut \/ groups <= 1) => outDims' = outDims)]_vars
C9_Witness ==
  /\ fwdStatus = "X_null" /\ gradStatus = "X_null" /\ hasOut
  /\ groups > 1 /\ outDims = Unset

\* ================================================ claims, SpecKernel
SetMax(S) == CHOOSE m \in S : \A v \in S : v <= m

\* C7: when the kernel has finished, every output element y[s*i + j]
\* (0 <= i < num_channels/groups, 0 <= j < s) is the maximum of exactly
\* the g input elements x[g*s*i + s*k + j]; every such index lies inside
\* the flattened input, every output index is written exactly once and no
\* input element is read for two output elements.
C7_ForwardValue ==
  (kpc = "done") =>
    LET g == groups
        s == Numel(xDims) \div xDims[axis + 1]
        n == xDims[axis + 1] \div groups
    IN /\ ~kbad
       /\ \A i \in 0..(n - 1), j \in 0..(s - 1) :
            /\ \A k \in 0..(g - 1) :
                 (g * s * i + s * k + j) \in 0..(Len(x) - 1)
            /\ (s * i + j) \in 0..(Len(y) - 1)
            /\ y[s * i + j + 1] =
                 SetMax({x[g * s * i + s * k + j + 1] : k \in 0..(g - 1)})
       /\ \A o \in DOMAIN wcount : wcount[o] = 1
       /\ \A m \in DOMAIN rcount : rcount[m] <= 1
C7_Witness ==
  /\ kpc = "done" /\ xDims = <<2, 2, 1, 1>> /\ groups = 2 /\ axis = 1
  /\ x = <<1, 6, 4, 2>> /\ y = <<4, 6>>

Scenario ==
  /\ xDims = <<1, 4, 1, 1>> /\ groups = 2 /\ axis = 1
  /\ x = <<2, 6, 4, 1>>

\* C8 (as stated): for input shape (1, 4, 1, 1) with values
\* [1.0, 3.0, 2.0, 0.5], groups = 2 and axis = 1 the output has shape
\* (1, 2, 1, 1) and values [2.0, 3.0].
C8_Original ==
  (Scenario /\ kpc = "done") =>
    (outDims = <<1, 2, 1, 1>> /\ y = <<4, 6>>)

\* C8 (amended): for that input the output has shape (1, 2, 1, 1) and
\* values [3.0, 2.0]: the first is the maximum of input indices 0 and 1,
\* the second the maximum of input indices 2 and 3.
C8_Scenario ==
  (Scenario /\ kpc = "done") =>
    /\ outDims = <<1, 2, 1, 1>>
    /\ y = <<6, 4>>
    /\ y[1] = SetMax({x[1], x[2]})
    /\ y[2] = SetMax({x[3], x[4]})
C8_Witness ==
  Scenario /\ kpc = "done" /\ y = <<6, 4>> /\ outDims = <<1, 2, 1, 1>>

\* ================================================= claims, SpecBuild
\* the USE_CUDA_ONLY_OP line of each excluded operator
PybindLine(op) ==
  CASE op = "conv_fusion_op" -> "USE_CUDA_ONLY_OP(conv2d_fusion);\n"
    [] op = "fusion_transpose_flatten_concat_op" ->
         "USE_CUDA_ONLY_OP(fusion_transpose_flatten_concat);\n"
    [] op = "fusion_conv_inception_op" ->
         "USE_CUDA_ONLY_OP(conv2d_inception_fusion);\n"
    [] op = "fused_fc_elementwise_layernorm_op" ->
         "USE_CUDA_ONLY_OP(fused_fc_elementwise_layernorm);\n"
    [] op = "multihead_matmul_op" -> "USE_CUDA_ONLY_OP(multihead_matmul);\n"
LineCount(line) == Cardinality({n \in DOMAIN pybind : pybind[n] = line})
NeedsCudnn == {"conv_fusion_op", "fusion_conv_inception_op"}

\* C10: each of the five excluded operators is built at most once; when
\* the run has finished none is built with WITH_GPU off, conv_fusion_op
\* and fusion_conv_inception_op are built exactly when WITH_GPU is on and
\* CUDNN_VERSION >= 7100, the other three exactly when WITH_GPU is on, and
\* the USE_CUDA_ONLY_OP line of an operator is in the pybind file exactly
\* when (and as often as) the operator is built.
C10_BuildGating ==
  /\ \A op \in EXCLUDES : built[op] <= 1
  /\ (cpc = "done") =>
       \A op \in EXCLUDES :
         /\ (~WITH_GPU => built[op] = 0)
         /\ (op \in NeedsCudnn =>
               (built[op] = 1 <=> (WITH_GPU /\ CUDNN_VERSION >= 7100)))
         /\ (op \notin NeedsCudnn => (built[op] = 1 <=> WITH_GPU))
         /\ LineCount(PybindLine(op)) = built[op]
C10_Witness ==
  /\ cpc = "done" /\ WITH_GPU /\ CUDNN_VERSION = 7100
  /\ \A op \in EXCLUDES : built[op] = 1 /\ LineCount(PybindLine(op)) = 1
====
